---- MODULE Spec2Model ----
(***************************************************************************)
(* The read path of go-sparkey: the sequential log iterator (LogIter) and  *)
(* the hash iterator (HashIter) of iter.go, over an immutable log and its  *)
(* hash index.  The Go methods are the actions; the calls they make into   *)
(* the native library are the sparkey_* operators.                         *)
(***************************************************************************)
EXTENDS Integers, Sequences, FiniteSets, TLC

\* ---------------------------------------------------------------- bounds
MaxLog == 3
MaxSkip == 2

\* ------------------------------------------------------------- constants
rc_SUCCESS == 0
rc_ITERINACTIVE == -205
rc_FAULT == -1
maxInt == 2147483647

ITERATOR_NEW == "NEW"
ITERATOR_ACTIVE == "ACTIVE"
ITERATOR_CLOSED == "CLOSED"
ITERATOR_INVALID == "INVALID"

ENTRY_PUT == "PUT"
ENTRY_DELETE == "DELETE"

\* ---------------------------------------------------------------- inputs
Keys == {<<1, 2>>, <<2>>}
OrderKeys == Keys \cup {<<1>>}
Values == {<<7>>, <<8, 9>>}
AllKeys == OrderKeys \cup {<<>>}
SeekKeys == Keys \cup {<<>>}
ChunkLens == {0, 1, maxInt}
Counts == 0..MaxSkip

\* The puts written: one key always with the long value, the other with
\* either value, so that a later put of a key can change its value.
Puts == {<<k, v>> \in Keys \X Values : Len(k) = 1 \/ Len(v) = 2}
PutEntries == {[type |-> ENTRY_PUT, key |-> p[1], value |-> p[2]] : p \in Puts}
DeleteEntries == {[type |-> ENTRY_DELETE, key |-> k, value |-> <<>>] : k \in Keys}
Entries == PutEntries \cup DeleteEntries
Logs == UNION {[1..n -> Entries] : n \in 0..MaxLog}
OrderEntries == {[type |-> ENTRY_PUT, key |-> k, value |-> <<7>>] : k \in OrderKeys}
OrderLogs == UNION {[1..n -> OrderEntries] : n \in 0..MaxLog}

\* The two iterators opened over the same reader: 1 is a HashIter (which
\* embeds a LogIter), 2 is a plain LogIter.
Iters == {1, 2}
HashIters == {1}

VARIABLES
  log,        \* the entries of the log file, in file order
  truncated,  \* TRUE when the last entry of the file cannot be read
  iters,      \* per iterator: the native iterator (iter) and the Go err field
  last,       \* what the most recent method call returned
  hist,       \* per iterator: what has been called and returned on this entry
  ptr         \* per iterator: whether the Go iter pointer is nil, and the
              \* number of native close calls made for it

vars == <<log, truncated, iters, last, hist, ptr>>

\* --------------------------------------------------------------- helpers
Min(a, b) == IF a <= b THEN a ELSE b

\* Go's error values: nil, or the Error made of a native return code.
nil == <<>>
Error(rc) == <<rc>>
errorOrNil(rc) == IF rc = rc_SUCCESS THEN nil ELSE Error(rc)

\* A native iterator that is not on an entry reports DELETE/0/0.
Unpositioned(st, off) ==
  [state |-> st, fileOffset |-> off, entryType |-> ENTRY_DELETE,
   keyLen |-> 0, valueLen |-> 0, keyCursor |-> 0, valueCursor |-> 0]

\* A native iterator freshly placed on entry k of the log.
OnEntry(k) ==
  [state |-> ITERATOR_ACTIVE, fileOffset |-> k, entryType |-> log[k].type,
   keyLen |-> Len(log[k].key), valueLen |-> Len(log[k].value),
   keyCursor |-> 0, valueCursor |-> 0]

\* Whether entry k of the file can be read.
Readable(k) == k \in 1..Len(log) /\ ~(truncated /\ k = Len(log))

Ok(it) == [rc |-> rc_SUCCESS, iter |-> it]

\* ------------------------------------------------------ native: log iterator
sparkey_logiter_next(it) ==
  LET k == it.fileOffset + 1 IN
  IF it.state = ITERATOR_CLOSED THEN Ok(it)
  ELSE IF k <= Len(log) /\ ~Readable(k)
    THEN [rc |-> rc_FAULT, iter |-> Unpositioned(ITERATOR_INVALID, it.fileOffset)]
  ELSE IF it.state = ITERATOR_INVALID THEN Ok(it)
  ELSE IF k > Len(log) THEN Ok(Unpositioned(ITERATOR_CLOSED, Len(log)))
  ELSE Ok(OnEntry(k))

RECURSIVE sparkey_logiter_skip(_, _)
sparkey_logiter_skip(it, count) ==
  IF count <= 0 THEN Ok(it)
  ELSE LET r == sparkey_logiter_next(it) IN
       IF r.rc # rc_SUCCESS THEN r ELSE sparkey_logiter_skip(r.iter, count - 1)

sparkey_logiter_reset(it) ==
  IF it.state # ITERATOR_ACTIVE THEN [rc |-> rc_ITERINACTIVE, iter |-> it]
  ELSE Ok([it EXCEPT !.keyCursor = 0, !.valueCursor = 0])

\* keychunk moving the cursor by the length asked for, not the length left.
sparkey_logiter_keychunk_Unclamped(it, maxlen) ==
  IF it.state # ITERATOR_ACTIVE
    THEN [rc |-> rc_ITERINACTIVE, iter |-> it, bytes |-> <<>>]
  ELSE LET n == Min(maxlen, it.keyLen - it.keyCursor) IN
       [rc |-> rc_SUCCESS,
        iter |-> [it EXCEPT !.keyCursor = @ + Min(maxlen, it.keyLen)],
        bytes |-> SubSeq(log[it.fileOffset].key, it.keyCursor + 1, it.keyCursor + n)]

sparkey_logiter_keychunk(it, maxlen) ==
  IF it.state # ITERATOR_ACTIVE
    THEN [rc |-> rc_ITERINACTIVE, iter |-> it, bytes |-> <<>>]
  ELSE LET n == Min(maxlen, it.keyLen - it.keyCursor) IN
       [rc |-> rc_SUCCESS,
        iter |-> [it EXCEPT !.keyCursor = @ + n],
        bytes |-> SubSeq(log[it.fileOffset].key, it.keyCursor + 1, it.keyCursor + n)]

sparkey_logiter_valuechunk(it, maxlen) ==
  IF it.state # ITERATOR_ACTIVE
    THEN [rc |-> rc_ITERINACTIVE, iter |-> it, bytes |-> <<>>]
  ELSE LET n == Min(maxlen, it.valueLen - it.valueCursor) IN
       [rc |-> rc_SUCCESS,
        iter |-> [it EXCEPT !.valueCursor = @ + n],
        bytes |-> SubSeq(log[it.fileOffset].value, it.valueCursor + 1, it.valueCursor + n)]

\* Byte-wise lexicographic order of two keys: -1, 0 or 1.
RECURSIVE keycmp_bytes(_, _)
keycmp_bytes(a, b) ==
  IF a = <<>> /\ b = <<>> THEN 0
  ELSE IF a = <<>> THEN -1
  ELSE IF b = <<>> THEN 1
  ELSE IF Head(a) < Head(b) THEN -1
  ELSE IF Head(a) > Head(b) THEN 1
  ELSE keycmp_bytes(Tail(a), Tail(b))

Clean(it) == it.state = ITERATOR_ACTIVE /\ it.keyCursor = 0 /\ it.valueCursor = 0

\* The results keycmp can give; on iterators that are not clean the result
\* is not defined, so every result is possible.
sparkey_logiter_keycmp(it1, it2) ==
  IF it1.state # ITERATOR_ACTIVE \/ it2.state # ITERATOR_ACTIVE
    THEN {[rc |-> rc_ITERINACTIVE, res |-> 0]}
  ELSE IF Clean(it1) /\ Clean(it2)
    THEN {[rc |-> rc_SUCCESS,
           res |-> keycmp_bytes(log[it1.fileOffset].key, log[it2.fileOffset].key)]}
  ELSE {[rc |-> rc_SUCCESS, res |-> x] : x \in {-1, 0, 1}}

\* ------------------------------------------------------ native: hash index
\* The index as the hash writer leaves it after the first n entries: a put
\* points the key at its entry, a delete removes the key (0: no entry).
RECURSIVE HashIndexUpTo(_)
HashIndexUpTo(n) ==
  IF n = 0 THEN [k \in AllKeys |-> 0]
  ELSE [HashIndexUpTo(n - 1) EXCEPT
          ![log[n].key] = IF log[n].type = ENTRY_PUT THEN n ELSE 0]

HashIndex == HashIndexUpTo(Len(log))

\* A hit has compared the sought key with the entry's key, which consumes it.
SeekHit(k) == [OnEntry(k) EXCEPT !.keyCursor = @ + Len(log[k].key)]

sparkey_hash_get(key, it) ==
  LET k == HashIndex[key] IN
  IF k = 0 THEN Ok(Unpositioned(ITERATOR_INVALID, it.fileOffset))
  ELSE IF ~Readable(k)
    THEN [rc |-> rc_FAULT, iter |-> Unpositioned(ITERATOR_INVALID, k - 1)]
  ELSE Ok(SeekHit(k))

RECURSIVE sparkey_logiter_hashnext(_)
sparkey_logiter_hashnext(it) ==
  LET r == sparkey_logiter_next(it) IN
  IF r.rc # rc_SUCCESS \/ r.iter.state # ITERATOR_ACTIVE THEN r
  ELSE IF HashIndex[log[r.iter.fileOffset].key] = r.iter.fileOffset THEN r
  ELSE sparkey_logiter_hashnext(r.iter)

\* ------------------------------------------------------------------ state
NewIter == Unpositioned(ITERATOR_NEW, 0)

\* hist[i] records the calls made on iterator i: the number of Next or
\* NextLive calls of a traversal (-1 when none is being followed), the
\* entries these calls stopped on, how the current entry was reached
\* ("fresh", "seek", or in a traversal "reset" after a Reset that rewound
\* consumed bytes) and the chunks returned from it since.
NewHist == [nexts |-> 0, visited |-> <<>>, placed |-> "fresh", keyOut |-> <<>>, valueOut |-> <<>>]
NoHist == [NewHist EXCEPT !.nexts = -1]

\* The iter pointer of an iterator the reader has just handed out.
NewPtr == [isNil |-> FALSE, closes |-> 0]

NoCall ==
  [op |-> "none", it |-> 0, err |-> nil, isNil |-> TRUE, bytes |-> <<>>, res |-> 0,
   count |-> 0]

Init ==
  /\ log \in Logs
  /\ truncated \in {t \in BOOLEAN : t => Len(log) > 0}
  /\ iters = [i \in Iters |-> [iter |-> NewIter, err |-> nil]]
  /\ last = NoCall
  /\ hist = [i \in Iters |-> NoHist]
  /\ ptr = [i \in Iters |-> NewPtr]

\* What a method call leaves: the iterator (self) and the returned values.
Ret(self, err, isNil, bytes) ==
  [self |-> self, err |-> err, isNil |-> isNil, bytes |-> bytes, res |-> 0]

\* Called with every iterator of the reader sharing one native iterator.
Called_SharedIterator(op, i, r, count) ==
  /\ ~ptr[i].isNil
  /\ iters' = [o \in Iters |-> [iters[o] EXCEPT !.iter = r.self.iter]]
  /\ last' = [op |-> op, it |-> i, err |-> r.err, isNil |-> r.isNil, bytes |-> r.bytes,
              res |-> r.res, count |-> count]
  /\ UNCHANGED <<log, truncated, ptr>>

\* The call becomes the most recent one.  A method called with a nil iter
\* pointer hands the nil to the native code, which stops the program: no
\* call is made on an iterator after its Close.
Called(op, i, r, count) ==
  /\ ~ptr[i].isNil
  /\ iters' = [iters EXCEPT ![i] = r.self]
  /\ last' = [op |-> op, it |-> i, err |-> r.err, isNil |-> r.isNil, bytes |-> r.bytes,
              res |-> r.res, count |-> count]
  /\ UNCHANGED <<log, truncated, ptr>>

\* hist after a call of Next or NextLive that left the native iterator it.
Moved(h, it) ==
  [nexts |-> IF h.nexts < 0 THEN -1 ELSE Min(h.nexts + 1, Len(log) + 2),
   visited |-> IF h.nexts < 0 \/ it.state # ITERATOR_ACTIVE THEN h.visited
               ELSE Append(h.visited, it.fileOffset),
   placed |-> "fresh", keyOut |-> <<>>, valueOut |-> <<>>]

\* hist after a call that places the iterator elsewhere.
Placed(how) == [NoHist EXCEPT !.placed = how]

\* hist after chunks were returned to the caller.
Consumed(h, keyBytes, valueBytes) ==
  [h EXCEPT !.keyOut = @ \o keyBytes, !.valueOut = @ \o valueBytes]

\* ------------------------------------------------------- LogIter methods
Err(i) == iters[i].err
State(i) == iters[i].iter.state
\* Valid testing for the end of the log only.
Valid_NotClosed(i) == State(i) # ITERATOR_CLOSED

Valid(i) == State(i) = ITERATOR_ACTIVE
EntryType(i) == iters[i].iter.entryType
KeyLen(i) == iters[i].iter.keyLen
ValueLen(i) == iters[i].iter.valueLen


\* What Skip, Next and NextLive leave in i.err when the native call has
\* returned rc.
SkipErr(err, rc) ==
  IF rc # rc_SUCCESS /\ rc # rc_ITERINACTIVE - 205 THEN Error(rc) ELSE err

NextErr(err, rc) ==
  IF rc # rc_SUCCESS /\ rc # rc_ITERINACTIVE THEN Error(rc) ELSE err

NextLiveErr(err, rc) ==
  IF rc # rc_SUCCESS /\ rc # rc_ITERINACTIVE THEN Error(rc) ELSE err

\* SkipCall skipping one entry too many.
SkipCall_OneMore(g, count) ==
  LET r == sparkey_logiter_skip(g.iter, count + 1) IN
  Ret([iter |-> r.iter,
       err |-> IF r.rc # rc_SUCCESS /\ r.rc # rc_ITERINACTIVE - 205
               THEN Error(r.rc) ELSE g.err],
      errorOrNil(r.rc), TRUE, <<>>)

SkipCall(g, count) ==
  LET r == sparkey_logiter_skip(g.iter, count) IN
  Ret([iter |-> r.iter, err |-> SkipErr(g.err, r.rc)], errorOrNil(r.rc), TRUE, <<>>)

Skip(i, count) ==
  LET r == SkipCall(iters[i], count) IN
  /\ Called("Skip", i, r, count)
  /\ hist' = [hist EXCEPT ![i] = IF count <= 0 THEN [@ EXCEPT !.nexts = -1, !.visited = <<>>]
                                 ELSE Placed("fresh")]


\* NextCall with the test for success dropped from the error check.
NextCall_RecordsSuccess(g) ==
  LET r == sparkey_logiter_next(g.iter) IN
  Ret([iter |-> r.iter,
       err |-> IF r.rc # rc_ITERINACTIVE THEN Error(r.rc) ELSE g.err],
      errorOrNil(r.rc), TRUE, <<>>)

\* NextCall reporting the end of the log as an error.
NextCall_EndIsError(g) ==
  LET r == sparkey_logiter_next(g.iter) IN
  Ret([iter |-> r.iter,
       err |-> IF r.rc # rc_SUCCESS /\ r.rc # rc_ITERINACTIVE
               THEN Error(r.rc) ELSE g.err],
      IF r.iter.state = ITERATOR_CLOSED THEN Error(rc_ITERINACTIVE) ELSE errorOrNil(r.rc),
      TRUE, <<>>)

NextCall(g) ==
  LET r == sparkey_logiter_next(g.iter) IN
  Ret([iter |-> r.iter, err |-> NextErr(g.err, r.rc)], errorOrNil(r.rc), TRUE, <<>>)

Next(i) ==
  LET r == NextCall(iters[i]) IN
  /\ Called("Next", i, r, 0)
  /\ hist' = [hist EXCEPT ![i] = Moved(@, r.self.iter)]


\* ResetCall recording the returned code in err, as Next does.
ResetCall_RecordsErr(g) ==
  LET r == sparkey_logiter_reset(g.iter) IN
  Ret([iter |-> r.iter,
       err |-> IF r.rc # rc_SUCCESS THEN Error(r.rc) ELSE g.err],
      errorOrNil(r.rc), TRUE, <<>>)

\* ResetCall calling the native next in place of the native reset.
ResetCall_CallsNext(g) ==
  LET r == sparkey_logiter_next(g.iter) IN
  Ret([g EXCEPT !.iter = r.iter], errorOrNil(r.rc), TRUE, <<>>)

ResetCall(g) ==
  LET r == sparkey_logiter_reset(g.iter) IN
  Ret([g EXCEPT !.iter = r.iter], errorOrNil(r.rc), TRUE, <<>>)

Reset(i) ==
  LET r == ResetCall(iters[i])
      it == iters[i].iter
  IN
  /\ Called("Reset", i, r, 0)
  /\ hist' = [hist EXCEPT ![i] =
       IF r.err # nil THEN @
       ELSE [@ EXCEPT !.keyOut = <<>>, !.valueOut = <<>>,
                      !.placed = IF @ = "reset" THEN @
                                 ELSE IF hist[i].nexts >= 0 /\ it.keyCursor + it.valueCursor > 0
                                   THEN "reset" ELSE "fresh"]]


\* KeyChunkCall calling the native valuechunk.
KeyChunkCall_ReadsValue(g, maxlen) ==
  LET r == sparkey_logiter_valuechunk(g.iter, maxlen) IN
  IF r.rc # rc_SUCCESS THEN Ret([g EXCEPT !.iter = r.iter], Error(r.rc), TRUE, <<>>)
  ELSE Ret([g EXCEPT !.iter = r.iter], nil, FALSE, r.bytes)

KeyChunkCall(g, maxlen) ==
  LET r == sparkey_logiter_keychunk(g.iter, maxlen) IN
  IF r.rc # rc_SUCCESS THEN Ret([g EXCEPT !.iter = r.iter], Error(r.rc), TRUE, <<>>)
  ELSE Ret([g EXCEPT !.iter = r.iter], nil, FALSE, r.bytes)

KeyChunk(i, maxlen) ==
  LET r == KeyChunkCall(iters[i], maxlen) IN
  /\ Called("KeyChunk", i, r, 0)
  /\ hist' = [hist EXCEPT ![i] = Consumed(@, r.bytes, <<>>)]

Key(i) == KeyChunk(i, maxInt)

\* ValueChunkCall calling the native keychunk.
ValueChunkCall_ReadsKey(g, maxlen) ==
  LET r == sparkey_logiter_keychunk(g.iter, maxlen) IN
  IF r.rc # rc_SUCCESS THEN Ret([g EXCEPT !.iter = r.iter], Error(r.rc), TRUE, <<>>)
  ELSE Ret([g EXCEPT !.iter = r.iter], nil, FALSE, r.bytes)

ValueChunkCall(g, maxlen) ==
  LET r == sparkey_logiter_valuechunk(g.iter, maxlen) IN
  IF r.rc # rc_SUCCESS THEN Ret([g EXCEPT !.iter = r.iter], Error(r.rc), TRUE, <<>>)
  ELSE Ret([g EXCEPT !.iter = r.iter], nil, FALSE, r.bytes)

ValueChunk(i, maxlen) ==
  LET r == ValueChunkCall(iters[i], maxlen) IN
  /\ Called("ValueChunk", i, r, 0)
  /\ hist' = [hist EXCEPT ![i] = Consumed(@, <<>>, r.bytes)]

Value(i) == ValueChunk(i, maxInt)


\* CompareCall handing the two iterators to the native call in the wrong order.
CompareCall_Swapped(g, other) ==
  {IF r.rc # rc_SUCCESS THEN Ret(g, Error(r.rc), TRUE, <<>>)
   ELSE [Ret(g, nil, TRUE, <<>>) EXCEPT !.res = r.res] :
     r \in sparkey_logiter_keycmp(other.iter, g.iter)}

\* ------------------------------------------- KeyReader and ValueReader
\* The reader KeyReader() or ValueReader() returns holds the iterator it
\* came from and nothing else; stream says which of the two it is.
Streams == {"key", "value"}

\* io.EOF: an error that is none of the native return codes.
io_EOF == <<1>>

ReaderChunk(g, stream, n) ==
  IF stream = "key" THEN KeyChunkCall(g, n) ELSE ValueChunkCall(g, n)

\* ReadCall returning the bytes without moving the iterator's cursor.
ReadCall_OwnCursor(g, stream, n) ==
  IF n = 0 THEN Ret(g, nil, TRUE, <<>>)
  ELSE LET c == ReaderChunk(g, stream, n) IN
       IF c.err # nil THEN Ret(c.self, c.err, TRUE, <<>>)
       ELSE IF c.bytes = <<>> THEN Ret(c.self, io_EOF, TRUE, <<>>)
       ELSE Ret(g, nil, FALSE, c.bytes)

\* Read(b) with len(b) = n: bytes holds what was copied into b.
ReadCall(g, stream, n) ==
  IF n = 0 THEN Ret(g, nil, TRUE, <<>>)
  ELSE LET c == ReaderChunk(g, stream, n) IN
       IF c.err # nil THEN Ret(c.self, c.err, TRUE, <<>>)
       ELSE IF c.bytes = <<>> THEN Ret(c.self, io_EOF, TRUE, <<>>)
       ELSE Ret(c.self, nil, FALSE, c.bytes)

Read(i, stream, n) ==
  LET r == ReadCall(iters[i], stream, n) IN
  /\ Called(IF stream = "key" THEN "KeyRead" ELSE "ValueRead", i, r, n)
  /\ hist' = [hist EXCEPT ![i] =
       IF stream = "key" THEN Consumed(@, r.bytes, <<>>) ELSE Consumed(@, <<>>, r.bytes)]

\* WriteTo(w): bytes holds what was written to w.
WriteToCall(g, stream) ==
  LET c == ReaderChunk(g, stream, maxInt) IN
  IF c.err # nil THEN Ret(c.self, c.err, TRUE, <<>>)
  ELSE Ret(c.self, nil, FALSE, c.bytes)

WriteTo(i, stream) ==
  LET r == WriteToCall(iters[i], stream) IN
  /\ Called(IF stream = "key" THEN "KeyWriteTo" ELSE "ValueWriteTo", i, r, 0)
  /\ hist' = [hist EXCEPT ![i] =
       IF stream = "key" THEN Consumed(@, r.bytes, <<>>) ELSE Consumed(@, <<>>, r.bytes)]

\* CompareCall over a native comparison that reads the receiver's key
\* through its chunk cursor and leaves it consumed.
CompareCall_ConsumesKey(g, other) ==
  {IF r.rc # rc_SUCCESS THEN Ret(g, Error(r.rc), TRUE, <<>>)
   ELSE [Ret([g EXCEPT !.iter.keyCursor = g.iter.keyLen], nil, TRUE, <<>>)
           EXCEPT !.res = r.res] :
     r \in sparkey_logiter_keycmp(g.iter, other.iter)}

\* Compare reads both iterators; the native result is one of those possible.
CompareCall(g, other) ==
  {IF r.rc # rc_SUCCESS THEN Ret(g, Error(r.rc), TRUE, <<>>)
   ELSE [Ret(g, nil, TRUE, <<>>) EXCEPT !.res = r.res] :
     r \in sparkey_logiter_keycmp(g.iter, other.iter)}

Compare(i, other) ==
  \E r \in CompareCall(iters[i], iters[other]) :
    /\ ~ptr[other].isNil
    /\ Called("Compare", i, r, 0)
    /\ UNCHANGED hist

\* The native close frees the iterator and sets the pointer to nil.
sparkey_logiter_close(p) == [isNil |-> TRUE, closes |-> p.closes + 1]

\* CloseCall without the test for a nil pointer.
CloseCall_NoNilCheck(p) == sparkey_logiter_close(p)

CloseCall(p) ==
  IF ~p.isNil THEN sparkey_logiter_close(p) ELSE [p EXCEPT !.isNil = TRUE]

Close(i) ==
  /\ ptr' = [ptr EXCEPT ![i] = CloseCall(@)]
  /\ last' = [NoCall EXCEPT !.op = "Close", !.it = i,
                             !.count = CloseCall(ptr[i]).closes - ptr[i].closes]
  /\ UNCHANGED <<log, truncated, iters, hist>>

\* ------------------------------------------------------ HashIter methods

\* SeekCall rewinding the entry it has found.
SeekCall_ThenReset(g, key) ==
  LET r == sparkey_hash_get(key, g.iter)
      z == sparkey_logiter_reset(r.iter)
  IN Ret([g EXCEPT !.iter = z.iter], errorOrNil(r.rc), TRUE, <<>>)

\* SeekCall reporting a key that is not found as an error.
SeekCall_MissIsError(g, key) ==
  LET r == sparkey_hash_get(key, g.iter) IN
  Ret([g EXCEPT !.iter = r.iter],
      IF r.iter.state = ITERATOR_INVALID THEN Error(rc_FAULT) ELSE errorOrNil(r.rc),
      TRUE, <<>>)

\* SeekCall refusing to look up a key once the iterator is INVALID.
SeekCall_FailsFast(g, key) ==
  LET r == sparkey_hash_get(key, g.iter) IN
  IF g.iter.state = ITERATOR_INVALID THEN Ret(g, Error(rc_ITERINACTIVE), TRUE, <<>>)
  ELSE Ret([g EXCEPT !.iter = r.iter], errorOrNil(r.rc), TRUE, <<>>)

SeekCall(g, key) ==
  LET r == sparkey_hash_get(key, g.iter) IN
  Ret([g EXCEPT !.iter = r.iter], errorOrNil(r.rc), TRUE, <<>>)

Seek(i, key) ==
  LET r == SeekCall(iters[i], key) IN
  /\ Called("Seek", i, r, 0)
  /\ hist' = [hist EXCEPT ![i] = Placed("seek")]


\* GetCall reading the value without looking at the state first.
GetCall_NoStateCheck(g, key) ==
  LET s == SeekCall(g, key) IN
  IF s.err # nil THEN Ret(s.self, s.err, TRUE, <<>>)
  ELSE ValueChunkCall(s.self, maxInt)

GetCall(g, key) ==
  LET s == SeekCall(g, key) IN
  IF s.err # nil THEN Ret(s.self, s.err, TRUE, <<>>)
  ELSE IF s.self.iter.state = ITERATOR_ACTIVE THEN ValueChunkCall(s.self, maxInt)
  ELSE Ret(s.self, nil, TRUE, <<>>)

Get(i, key) ==
  LET r == GetCall(iters[i], key) IN
  /\ Called("Get", i, r, 0)
  /\ hist' = [hist EXCEPT ![i] = Consumed(Placed("seek"), <<>>, r.bytes)]


\* NextLiveCall calling the native next in place of the native hashnext.
NextLiveCall_CallsNext(g) ==
  LET r == sparkey_logiter_next(g.iter) IN
  Ret([iter |-> r.iter,
       err |-> IF r.rc # rc_SUCCESS /\ r.rc # rc_ITERINACTIVE
               THEN Error(r.rc) ELSE g.err],
      errorOrNil(r.rc), TRUE, <<>>)

NextLiveCall(g) ==
  LET r == sparkey_logiter_hashnext(g.iter) IN
  Ret([iter |-> r.iter, err |-> NextLiveErr(g.err, r.rc)], errorOrNil(r.rc), TRUE, <<>>)

NextLive(i) ==
  LET r == NextLiveCall(iters[i]) IN
  /\ Called("NextLive", i, r, 0)
  /\ hist' = [hist EXCEPT ![i] = Moved(@, r.self.iter)]

\* ---------------------------------------------------------- specifications
\* One hash iterator used through every method, beside an iterator that
\* is never moved.
Step ==
  \/ \E i \in HashIters : Next(i)
  \/ \E i \in HashIters, count \in Counts : Skip(i, count)
  \/ \E i \in HashIters : Reset(i)
  \/ \E i \in HashIters, maxlen \in ChunkLens : KeyChunk(i, maxlen)
  \/ \E i \in HashIters, maxlen \in ChunkLens : ValueChunk(i, maxlen)
  \/ \E i \in HashIters : \E other \in Iters \ {i} : Compare(i, other)
  \/ \E i \in HashIters, key \in SeekKeys : Seek(i, key)
  \/ \E i \in HashIters, key \in SeekKeys : Get(i, key)
  \/ \E i \in HashIters : NextLive(i)

Spec == Init /\ [][Step]_vars

\* Two iterators over one log whose keys come in every order, compared
\* with each other in both directions.
InitOrder ==
  /\ log \in OrderLogs
  /\ truncated = FALSE
  /\ iters = [i \in Iters |-> [iter |-> NewIter, err |-> nil]]
  /\ last = NoCall
  /\ hist = [i \in Iters |-> NoHist]
  /\ ptr = [i \in Iters |-> NewPtr]

StepOrder ==
  \/ \E i \in Iters : Next(i)
  \/ \E i \in HashIters : Reset(i)
  \/ \E i \in HashIters, maxlen \in ChunkLens : KeyChunk(i, maxlen)
  \/ \E i \in HashIters, key \in OrderKeys : Seek(i, key)
  \/ \E i \in Iters : \E other \in Iters \ {i} : Compare(i, other)

SpecOrder == InitOrder /\ [][StepOrder]_vars

\* A traversal: a new iterator moved by Next only, its entries read (and
\* re-read) on the way; hist follows the calls of Next.
InitWalk ==
  /\ log \in Logs
  /\ truncated \in {t \in BOOLEAN : t => Len(log) > 0}
  /\ iters = [i \in Iters |-> [iter |-> NewIter, err |-> nil]]
  /\ last = NoCall
  /\ hist = [i \in Iters |-> NewHist]
  /\ ptr = [i \in Iters |-> NewPtr]

StepWalk ==
  \/ \E i \in HashIters : Next(i)
  \/ \E i \in HashIters : Reset(i)
  \/ \E i \in HashIters, maxlen \in ChunkLens : KeyChunk(i, maxlen)
  \/ \E i \in HashIters, maxlen \in ChunkLens : ValueChunk(i, maxlen)

SpecWalk == InitWalk /\ [][StepWalk]_vars

\* A traversal of the live entries: the same, moved by NextLive only.
StepLive ==
  \/ \E i \in HashIters : NextLive(i)
  \/ \E i \in HashIters : Reset(i)
  \/ \E i \in HashIters, maxlen \in ChunkLens : KeyChunk(i, maxlen)
  \/ \E i \in HashIters, maxlen \in ChunkLens : ValueChunk(i, maxlen)

SpecLive == InitWalk /\ [][StepLive]_vars

\* A traversal read through the readers, obtained from the new iterator,
\* and through the chunk calls, mixed.
StepRead ==
  \/ \E i \in HashIters : Next(i)
  \/ \E i \in HashIters, maxlen \in ChunkLens : KeyChunk(i, maxlen)
  \/ \E i \in HashIters, maxlen \in ChunkLens : ValueChunk(i, maxlen)
  \/ \E i \in HashIters, stream \in Streams, n \in ChunkLens : Read(i, stream, n)
  \/ \E i \in HashIters, stream \in Streams : WriteTo(i, stream)

SpecRead == InitWalk /\ [][StepRead]_vars

\* Two iterators over one log and its index, their calls interleaved, each
\* used through every method until it is closed.
TwoEntries ==
  {[type |-> ENTRY_PUT, key |-> <<1, 2>>, value |-> <<7>>],
   [type |-> ENTRY_DELETE, key |-> <<1, 2>>, value |-> <<>>]}
TwoLogs == UNION {[1..n -> TwoEntries] : n \in 0..MaxLog}

InitTwo ==
  /\ log \in TwoLogs
  /\ truncated \in {t \in BOOLEAN : t => Len(log) > 0}
  /\ iters = [i \in Iters |-> [iter |-> NewIter, err |-> nil]]
  /\ last = NoCall
  /\ hist = [i \in Iters |-> NoHist]
  /\ ptr = [i \in Iters |-> NewPtr]

StepTwo ==
  \/ \E i \in Iters : Next(i)
  \/ \E i \in Iters : Skip(i, MaxSkip)
  \/ \E i \in Iters : Reset(i)
  \/ \E i \in Iters : KeyChunk(i, maxInt)
  \/ \E i \in Iters : ValueChunk(i, maxInt)
  \/ \E i \in Iters : \E other \in Iters \ {i} : Compare(i, other)
  \/ \E i \in Iters : Seek(i, <<1, 2>>)
  \/ \E i \in Iters : NextLive(i)
  \/ \E i \in Iters : Close(i)

SpecTwo == InitTwo /\ [][StepTwo]_vars

\* The err field under every code the native calls can hand back: Skip,
\* Next and NextLive are taken with the native return code as an input,
\* whatever the native call has done to the iterator; the other methods
\* are called beside them.
NativeCodes == {rc_SUCCESS, rc_ITERINACTIVE, rc_FAULT}

Returned(op, i, err, rc) ==
  /\ ~ptr[i].isNil
  /\ iters' = [iters EXCEPT ![i].err = err]
  /\ last' = [NoCall EXCEPT !.op = op, !.it = i, !.err = errorOrNil(rc), !.res = rc]
  /\ UNCHANGED <<log, truncated, hist, ptr>>

SkipReturns(i, rc) == Returned("Skip", i, SkipErr(iters[i].err, rc), rc)
NextReturns(i, rc) == Returned("Next", i, NextErr(iters[i].err, rc), rc)
NextLiveReturns(i, rc) == Returned("NextLive", i, NextLiveErr(iters[i].err, rc), rc)

StepErr ==
  \/ \E i \in HashIters, rc \in NativeCodes : SkipReturns(i, rc)
  \/ \E i \in HashIters, rc \in NativeCodes : NextReturns(i, rc)
  \/ \E i \in HashIters, rc \in NativeCodes : NextLiveReturns(i, rc)
  \/ \E i \in HashIters : Reset(i)
  \/ \E i \in HashIters : KeyChunk(i, maxInt)
  \/ \E i \in HashIters : ValueChunk(i, maxInt)
  \/ \E i \in HashIters : \E other \in Iters \ {i} : Compare(i, other)
  \/ \E i \in HashIters, key \in SeekKeys : Seek(i, key)
  \/ \E i \in HashIters, key \in SeekKeys : Get(i, key)

SpecErr == InitTwo /\ [][StepErr]_vars

\* ------------------------------------------------------------- properties
CurrentEntry(i) == log[iters[i].iter.fileOffset]

\* C1: on a readable log of N entries, the k-th Next of a new iterator
\* (1 <= k <= N) returns no error and leaves the iterator ACTIVE on entry k
\* with that entry's type and lengths; call N+1 returns no error and leaves
\* it CLOSED with DELETE/0/0; Err() is nil throughout.
C1_Traversal ==
  \A i \in HashIters :
    LET n == hist[i].nexts
        it == iters[i].iter
    IN (~truncated /\ n >= 1) =>
         /\ Err(i) = nil
         /\ (last.op = "Next" /\ last.it = i) => last.err = nil
         /\ n <= Len(log) =>
              /\ it.state = ITERATOR_ACTIVE
              /\ it.fileOffset = n
              /\ it.entryType = log[n].type
              /\ it.keyLen = Len(log[n].key)
              /\ it.valueLen = Len(log[n].value)
              /\ hist[i].visited = [k \in 1..n |-> k]
         /\ n = Len(log) + 1 =>
              /\ it.state = ITERATOR_CLOSED
              /\ it.entryType = ENTRY_DELETE
              /\ it.keyLen = 0
              /\ it.valueLen = 0

C1_TraversalEnded ==
  /\ ~truncated
  /\ Len(log) >= 2
  /\ hist[1].nexts = Len(log) + 1
  /\ last.op = "Next"
  /\ State(1) = ITERATOR_CLOSED

\* C2 (state part): on an ACTIVE entry the chunks returned so far, put
\* together, are the bytes of the key (of the value) from where the entry
\* was placed up to the cursor: no byte twice, none left out.
C2_ChunksReturned ==
  \A i \in HashIters :
    Valid(i) =>
      LET it == iters[i].iter
          base == IF hist[i].placed = "seek" THEN it.keyLen ELSE 0
      IN /\ hist[i].keyOut = SubSeq(CurrentEntry(i).key, base + 1, it.keyCursor)
         /\ hist[i].valueOut = SubSeq(CurrentEntry(i).value, 1, it.valueCursor)

\* C2 (step part): on an ACTIVE entry every chunk call returns, without
\* error, the next min(maxLen, bytes remaining) bytes; with nothing
\* remaining that is the empty result.
C2_ChunkStep ==
  \A i \in HashIters : \A maxlen \in ChunkLens :
    Valid(i) =>
      LET it == iters[i].iter
          nk == Min(maxlen, it.keyLen - it.keyCursor)
          nv == Min(maxlen, it.valueLen - it.valueCursor)
      IN /\ KeyChunk(i, maxlen) =>
              /\ last'.err = nil /\ ~last'.isNil
              /\ last'.bytes = SubSeq(CurrentEntry(i).key, it.keyCursor + 1, it.keyCursor + nk)
              /\ (it.keyCursor = it.keyLen => last'.bytes = <<>>)
              /\ iters'[i].iter = [it EXCEPT !.keyCursor = @ + nk]
         /\ ValueChunk(i, maxlen) =>
              /\ last'.err = nil /\ ~last'.isNil
              /\ last'.bytes = SubSeq(CurrentEntry(i).value, it.valueCursor + 1, it.valueCursor + nv)
              /\ (it.valueCursor = it.valueLen => last'.bytes = <<>>)
              /\ iters'[i].iter = [it EXCEPT !.valueCursor = @ + nv]

\* C2: chunk reads of the key and of the value of an ACTIVE entry return
\* each byte once, in order, min(maxLen, remaining) bytes per call, and the
\* empty result without error once everything is consumed.
C2_OneShotChunks == []C2_ChunksReturned /\ [][C2_ChunkStep]_vars

C2_KeyReadInTwoChunks ==
  /\ Valid(1)
  /\ last.op = "KeyChunk"
  /\ Len(last.bytes) = 1
  /\ Len(hist[1].keyOut) = 2
  /\ hist[1].keyOut = CurrentEntry(1).key
  /\ hist[1].valueOut # <<>>

\* C3: on an iterator that is not ACTIVE, KeyChunk, ValueChunk, Reset, and
\* Compare with either side not ACTIVE, fail with the iterator-inactive
\* error, return no bytes and change nothing of the iterator, Err()
\* included; on an ACTIVE entry whose key or value is consumed the chunk
\* call returns an empty result and no error instead.
Refused ==
  /\ last'.err = Error(rc_ITERINACTIVE)
  /\ last'.isNil
  /\ last'.bytes = <<>>
  /\ last'.res = 0
  /\ iters' = iters

C3_InactiveStep ==
  \A i \in HashIters :
    /\ ~Valid(i) =>
         /\ \A maxlen \in ChunkLens : (KeyChunk(i, maxlen) \/ ValueChunk(i, maxlen)) => Refused
         /\ Reset(i) => Refused
    /\ \A other \in Iters \ {i} :
         ((~Valid(i) \/ ~Valid(other)) /\ Compare(i, other)) => Refused
    /\ Valid(i) =>
         \A maxlen \in ChunkLens :
           /\ (iters[i].iter.keyCursor = iters[i].iter.keyLen /\ KeyChunk(i, maxlen)) =>
                (last'.err = nil /\ ~last'.isNil /\ last'.bytes = <<>>)
           /\ (iters[i].iter.valueCursor = iters[i].iter.valueLen /\ ValueChunk(i, maxlen)) =>
                (last'.err = nil /\ ~last'.isNil /\ last'.bytes = <<>>)

C3_Inactive == [][C3_InactiveStep]_vars

C3_RefusedAfterFault ==
  /\ State(1) = ITERATOR_INVALID
  /\ Err(1) # nil
  /\ last.op = "KeyChunk"
  /\ last.err = Error(rc_ITERINACTIVE)
  /\ last.isNil

\* C4 (step part): Reset on an ACTIVE iterator returns no error, zeroes both
\* cursors and changes nothing else; the Key and Value calls that follow a
\* rewinding Reset return the whole key and the whole value.
C4_ResetStep ==
  \A i \in HashIters :
    /\ (Valid(i) /\ Reset(i)) =>
         /\ last'.err = nil
         /\ iters'[i] = [iters[i] EXCEPT !.iter.keyCursor = 0, !.iter.valueCursor = 0]
    /\ (Valid(i) /\ hist[i].placed = "reset" /\ hist[i].keyOut = <<>> /\ Key(i)) =>
         (last'.err = nil /\ last'.bytes = CurrentEntry(i).key)
    /\ (Valid(i) /\ hist[i].placed = "reset" /\ hist[i].valueOut = <<>> /\ Value(i)) =>
         (last'.err = nil /\ last'.bytes = CurrentEntry(i).value)

\* C4 (state part): what is read after a rewinding Reset starts again at the
\* first byte of the key and of the value.
C4_ReadAgain ==
  \A i \in HashIters :
    (Valid(i) /\ hist[i].placed = "reset") =>
      /\ hist[i].keyOut = SubSeq(CurrentEntry(i).key, 1, iters[i].iter.keyCursor)
      /\ hist[i].valueOut = SubSeq(CurrentEntry(i).value, 1, iters[i].iter.valueCursor)

\* C4: Reset on an ACTIVE iterator, after bytes were consumed, succeeds,
\* zeroes keyCursor and valueCursor, leaves state, fileOffset, type and
\* lengths alone, and the key and the value can be read in full again.
C4_ResetRewinds == []C4_ReadAgain /\ [][C4_ResetStep]_vars

C4_ReadInFullAfterReset ==
  /\ Valid(1)
  /\ hist[1].placed = "reset"
  /\ last.op = "ValueChunk"
  /\ hist[1].keyOut = CurrentEntry(1).key
  /\ hist[1].valueOut = CurrentEntry(1).value
  /\ Len(CurrentEntry(1).value) = 2

\* The iterator and the returned error after n calls of Next.
RECURSIVE NextTimes(_, _)
NextTimes(g, n) ==
  IF n = 0 THEN [self |-> g, err |-> nil]
  ELSE LET c == NextCall(NextTimes(g, n - 1).self) IN [self |-> c.self, err |-> c.err]

\* C5: from NEW, ACTIVE or CLOSED, Skip(count) leaves the iterator exactly
\* as count calls of Next leave it (state, entry, metadata, cursors, Err())
\* and returns what the last of them returns.
C5_SkipStep ==
  \A i \in HashIters : \A count \in Counts :
    (State(i) # ITERATOR_INVALID /\ Skip(i, count)) =>
      /\ iters'[i] = NextTimes(iters[i], count).self
      /\ last'.err = NextTimes(iters[i], count).err

C5_SkipIsNexts == [][C5_SkipStep]_vars

C5_SkippedPastEnd ==
  /\ last.op = "Skip"
  /\ last.count = 2
  /\ last.err = nil
  /\ State(1) = ITERATOR_CLOSED
  /\ Len(log) >= 2

\* The last entry of the log written for key; 0 when there is none.
LatestEntry(key) ==
  LET S == {k \in 1..Len(log) : log[k].key = key} IN
  IF S = {} THEN 0 ELSE CHOOSE k \in S : \A j \in S : j <= k

\* The entries that are the most recent of their key and are puts.
LiveEntries ==
  {k \in 1..Len(log) :
     /\ log[k].type = ENTRY_PUT
     /\ \A j \in (k + 1)..Len(log) : log[j].key # log[k].key}

\* C6: from any state of the iterator, Get(key) returns no error: the value
\* of the most recent entry of the key when that entry is a put, and nil
\* when the key is not in the log or its most recent entry is a delete.
C6_GetStep ==
  \A i \in HashIters : \A key \in SeekKeys :
    Get(i, key) =>
      LET k == LatestEntry(key) IN
      IF k = 0 \/ log[k].type = ENTRY_DELETE
        THEN last'.err = nil /\ last'.isNil
        ELSE Readable(k) =>
               (last'.err = nil /\ ~last'.isNil /\ last'.bytes = log[k].value)

C6_GetLatest == [][C6_GetStep]_vars

C6_GotChangedValue ==
  /\ last.op = "Get"
  /\ last.err = nil
  /\ ~last.isNil
  /\ Valid(1)
  /\ \E j \in 1..(iters[1].iter.fileOffset - 1) :
       /\ log[j].key = CurrentEntry(1).key
       /\ log[j].type = ENTRY_PUT
       /\ log[j].value # last.bytes

\* C7 as stated: after a Seek that hits, keyCursor and valueCursor are 0.
C7_SeekHitIsClean ==
  \A i \in HashIters :
    (last.op = "Seek" /\ last.it = i /\ Valid(i)) =>
      (iters[i].iter.keyCursor = 0 /\ iters[i].iter.valueCursor = 0)

C7_SeekHitStep ==
  \A i \in HashIters :
    /\ \A key \in SeekKeys :
         (Seek(i, key) /\ iters'[i].iter.state = ITERATOR_ACTIVE) =>
           LET it == iters'[i].iter IN
           /\ last'.err = nil
           /\ it.fileOffset \in 1..Len(log)
           /\ log[it.fileOffset].key = key
           /\ it.entryType = log[it.fileOffset].type
           /\ it.keyLen = Len(key)
           /\ it.valueLen = Len(log[it.fileOffset].value)
           /\ it.keyCursor = it.keyLen
           /\ it.valueCursor = 0
    /\ (last.op = "Seek" /\ last.it = i /\ Valid(i) /\ Key(i)) =>
         (last'.err = nil /\ ~last'.isNil /\ last'.bytes = <<>>)
    /\ (last.op = "Seek" /\ last.it = i /\ Valid(i) /\ Value(i)) =>
         (last'.err = nil /\ ~last'.isNil /\ last'.bytes = CurrentEntry(i).value)

\* C7, amended: after a Seek that hits, the iterator is ACTIVE on the entry
\* of the key sought with the key already consumed (keyCursor = keyLen) and
\* valueCursor = 0: the Key call that follows returns an empty result and
\* no error, the Value call the whole value.
C7_SeekHitKeyConsumed == [][C7_SeekHitStep]_vars

C7_EmptyKeyAfterSeek ==
  /\ Valid(1)
  /\ hist[1].placed = "seek"
  /\ hist[1].keyOut = <<>>
  /\ hist[1].valueOut = <<>>
  /\ last.op = "KeyChunk"
  /\ last.err = nil
  /\ ~last.isNil
  /\ last.bytes = <<>>
  /\ KeyLen(1) = 2

\* C8: a Seek for a key that has no live entry returns no error, leaves the
\* iterator INVALID and Err() as it was; from INVALID a Seek for a key with
\* a live entry returns no error and leaves the iterator ACTIVE.
C8_SeekStep ==
  \A i \in HashIters : \A key \in SeekKeys :
    Seek(i, key) =>
      LET k == LatestEntry(key) IN
      /\ (k \notin LiveEntries) =>
           /\ last'.err = nil
           /\ iters'[i].iter.state = ITERATOR_INVALID
           /\ iters'[i].err = iters[i].err
      /\ (k \in LiveEntries /\ Readable(k) /\ State(i) = ITERATOR_INVALID) =>
           /\ last'.err = nil
           /\ iters'[i].iter.state = ITERATOR_ACTIVE

C8_SeekMiss == [][C8_SeekStep]_vars

C8_MissedAfterFault ==
  /\ last.op = "Seek"
  /\ last.err = nil
  /\ State(1) = ITERATOR_INVALID
  /\ Err(1) # nil
  /\ \E k \in 1..Len(log) : log[k].type = ENTRY_DELETE /\ LatestEntry(log[k].key) = k

\* The members of a set of entries in log order.
InLogOrder(S) ==
  CHOOSE q \in [1..Cardinality(S) -> S] : \A a, b \in 1..Cardinality(S) : a < b => q[a] < q[b]

\* C9: on a readable log, the calls of NextLive on a new iterator stop, in
\* log order and once each, on exactly the live entries, and the call after
\* the last of them leaves the iterator CLOSED with Err() nil.
C9_LiveTraversal ==
  \A i \in HashIters :
    LET h == hist[i]
        live == InLogOrder(LiveEntries)
    IN (~truncated /\ h.nexts >= 0) =>
         /\ Err(i) = nil
         /\ Len(h.visited) <= Len(live)
         /\ \A a \in 1..Len(h.visited) : h.visited[a] = live[a]
         /\ Valid(i) =>
              /\ h.nexts = Len(h.visited)
              /\ h.nexts >= 1
              /\ iters[i].iter.fileOffset = h.visited[h.nexts]
         /\ (h.nexts >= 1 /\ ~Valid(i)) =>
              /\ State(i) = ITERATOR_CLOSED
              /\ h.visited = live
              /\ last.it = i /\ last.op = "NextLive" => last.err = nil

C9_SkippedDeadEntries ==
  /\ ~truncated
  /\ hist[1].nexts >= 2
  /\ State(1) = ITERATOR_CLOSED
  /\ Len(hist[1].visited) = 1
  /\ \E k \in 1..Len(log) : log[k].type = ENTRY_DELETE
  /\ \E k \in 1..Len(log) : log[k].type = ENTRY_PUT /\ k \notin LiveEntries /\ LatestEntry(log[k].key) \in LiveEntries

\* Key a comes before key b in the byte-wise lexicographic order.
KeyBefore(a, b) ==
  \E p \in 1..Len(b) :
    /\ \A q \in 1..(p - 1) : q <= Len(a) /\ a[q] = b[q]
    /\ p <= Len(a) + 1
    /\ (p <= Len(a) => a[p] < b[p])

Sign(x) == IF x < 0 THEN -1 ELSE IF x > 0 THEN 1 ELSE 0

\* C10: Compare of two clean ACTIVE iterators over one log returns no error
\* and zero exactly when the keys are equal, a negative number exactly when
\* the first key comes before the second byte-wise, a positive one exactly
\* when it comes after; the other way round the sign is reversed.
C10_CompareStep ==
  \A i \in Iters : \A other \in Iters \ {i} :
    (Clean(iters[i].iter) /\ Clean(iters[other].iter) /\ Compare(i, other)) =>
      LET a == CurrentEntry(i).key
          b == CurrentEntry(other).key
      IN /\ last'.err = nil
         /\ (last'.res = 0) <=> (a = b)
         /\ (last'.res < 0) <=> KeyBefore(a, b)
         /\ (last'.res > 0) <=> KeyBefore(b, a)
         /\ \A r \in CompareCall(iters[other], iters[i]) :
              r.err = nil /\ Sign(r.res) = 0 - Sign(last'.res)

C10_CompareOrder == [][C10_CompareStep]_vars

C10_LongerKeyComesFirst ==
  /\ last.op = "Compare"
  /\ last.it = 1
  /\ last.err = nil
  /\ last.res < 0
  /\ Clean(iters[1].iter)
  /\ Clean(iters[2].iter)
  /\ KeyLen(1) > KeyLen(2)

\* C11: before any call every iterator is NEW, not valid, and reports
\* DELETE/0/0; EntryType, KeyLen and ValueLen report DELETE/0/0 in every
\* state that is not on an entry, and the entry's own type and lengths on
\* an entry.
C11_Metadata ==
  /\ last.op = "none" =>
       \A i \in Iters :
         /\ State(i) = ITERATOR_NEW
         /\ ~Valid(i)
         /\ EntryType(i) = ENTRY_DELETE
         /\ KeyLen(i) = 0
         /\ ValueLen(i) = 0
  /\ \A i \in Iters :
       State(i) # ITERATOR_ACTIVE =>
         /\ ~Valid(i)
         /\ EntryType(i) = ENTRY_DELETE
         /\ KeyLen(i) = 0
         /\ ValueLen(i) = 0
  /\ \A i \in Iters :
       State(i) = ITERATOR_ACTIVE =>
         /\ Valid(i)
         /\ EntryType(i) = CurrentEntry(i).type
         /\ KeyLen(i) = Len(CurrentEntry(i).key)
         /\ ValueLen(i) = Len(CurrentEntry(i).value)

C11_UnpositionedAfterFault ==
  /\ State(1) = ITERATOR_INVALID
  /\ last.op = "Next"
  /\ last.err # nil
  /\ iters[1].iter.fileOffset >= 1
  /\ EntryType(1) = ENTRY_DELETE
  /\ KeyLen(1) = 0
  /\ ValueLen(1) = 0

C12_CloseStep ==
  \A i \in Iters :
    Close(i) =>
      /\ last'.err = nil
      /\ ptr'[i].isNil
      /\ ptr'[i].closes = 1
      /\ ptr[i].isNil => (ptr' = ptr /\ last'.count = 0)
      /\ iters' = iters
      /\ \A o \in Iters \ {i} : ptr'[o] = ptr[o]

C12_Closable == \A i \in Iters : ENABLED Close(i)

\* C12: Close can be called in every state, closed included, and returns
\* no error; the first Close releases the native iterator, a later one
\* releases nothing and changes nothing; no Close changes another iterator.
C12_CloseIdempotent == []C12_Closable /\ [][C12_CloseStep]_vars

C12_ClosedAgain ==
  /\ last.op = "Close"
  /\ last.it = 1
  /\ last.count = 0
  /\ ptr[1].closes = 1
  /\ ~ptr[2].isNil
  /\ State(2) = ITERATOR_ACTIVE
  /\ iters[2].iter.keyCursor > 0

C13_ClosedStep ==
  \A i \in HashIters :
    (State(i) = ITERATOR_CLOSED /\ Next(i)) =>
      /\ last'.err = nil
      /\ iters'[i] = iters[i]
      /\ iters'[i].iter.state = ITERATOR_CLOSED
      /\ iters'[i].iter.entryType = ENTRY_DELETE
      /\ iters'[i].iter.keyLen = 0
      /\ iters'[i].iter.valueLen = 0

\* C13: Next on a CLOSED iterator returns no error and leaves it CLOSED
\* with DELETE/0/0, however often it is called.
C13_ClosedIsTerminal == [][C13_ClosedStep]_vars

C13_NextAfterEnd ==
  /\ Len(log) >= 1
  /\ hist[1].nexts = Len(log) + 2
  /\ last.op = "Next"
  /\ last.err = nil
  /\ State(1) = ITERATOR_CLOSED

\* The unread bytes of a stream of the entry iterator i is on.
Remaining(i, stream) ==
  IF stream = "key"
    THEN SubSeq(CurrentEntry(i).key, iters[i].iter.keyCursor + 1, iters[i].iter.keyLen)
    ELSE SubSeq(CurrentEntry(i).value, iters[i].iter.valueCursor + 1, iters[i].iter.valueLen)

\* The iterator with n more bytes of a stream consumed.
Advanced(g, stream, n) ==
  IF stream = "key" THEN [g EXCEPT !.iter.keyCursor = @ + n]
  ELSE [g EXCEPT !.iter.valueCursor = @ + n]

C14_Delivered ==
  \A i \in HashIters :
    Valid(i) =>
      /\ hist[i].keyOut = SubSeq(CurrentEntry(i).key, 1, iters[i].iter.keyCursor)
      /\ hist[i].valueOut = SubSeq(CurrentEntry(i).value, 1, iters[i].iter.valueCursor)

C14_ReaderStep ==
  \A i \in HashIters : \A stream \in Streams :
    /\ \A n \in ChunkLens \ {0} :
         Read(i, stream, n) =>
           IF ~Valid(i)
             THEN /\ last'.err = Error(rc_ITERINACTIVE)
                  /\ last'.bytes = <<>>
                  /\ iters' = iters
           ELSE IF Remaining(i, stream) = <<>>
             THEN /\ last'.err = io_EOF
                  /\ last'.bytes = <<>>
                  /\ iters' = iters
           ELSE LET m == Min(n, Len(Remaining(i, stream))) IN
                /\ last'.err = nil
                /\ last'.bytes = SubSeq(Remaining(i, stream), 1, m)
                /\ iters'[i] = Advanced(iters[i], stream, m)
    /\ WriteTo(i, stream) =>
         IF ~Valid(i)
           THEN /\ last'.err = Error(rc_ITERINACTIVE)
                /\ last'.bytes = <<>>
                /\ iters' = iters
         ELSE /\ last'.err = nil
              /\ last'.bytes = Remaining(i, stream)
              /\ iters'[i] = Advanced(iters[i], stream, Len(Remaining(i, stream)))

\* C14: a reader shares the cursor of its iterator.  Read and WriteTo
\* deliver the unread bytes of the entry the iterator is on now; what
\* Read, WriteTo and the chunk calls have delivered from an entry is, put
\* together, the consumed part of its key (value), so no byte comes twice;
\* a non-empty Read at the end of the stream returns 0 bytes and io.EOF,
\* WriteTo there 0 bytes and no error; on an iterator that is not ACTIVE a
\* non-empty Read and WriteTo fail with the iterator-inactive error.
C14_ReaderSharesCursor == []C14_Delivered /\ [][C14_ReaderStep]_vars

C14_EndOfStreamAfterNext ==
  /\ Valid(1)
  /\ hist[1].nexts = 2
  /\ last.op = "KeyRead"
  /\ last.err = io_EOF
  /\ Len(hist[1].keyOut) = 2
  /\ hist[1].keyOut = CurrentEntry(1).key
  /\ hist[1].valueOut = CurrentEntry(1).value
  /\ hist[1].valueOut # <<>>

C15_CursorsInRange ==
  \A i \in Iters :
    LET it == iters[i].iter IN
    /\ 0 <= it.keyCursor /\ it.keyCursor <= it.keyLen
    /\ 0 <= it.valueCursor /\ it.valueCursor <= it.valueLen
    /\ it.keyLen = KeyLen(i) /\ it.valueLen = ValueLen(i)

C15_NewEntryStep ==
  \A i \in HashIters :
    ((Next(i) \/ \E count \in Counts : Skip(i, count))
       /\ iters'[i].iter.state = ITERATOR_ACTIVE
       /\ iters'[i].iter.fileOffset # iters[i].iter.fileOffset) =>
      /\ iters'[i].iter.keyCursor = 0
      /\ iters'[i].iter.valueCursor = 0

\* C15: in every reachable state keyCursor <= keyLen and valueCursor <=
\* valueLen, and both cursors are 0 right after Next or Skip has moved the
\* iterator to another entry.
C15_Cursors == []C15_CursorsInRange /\ [][C15_NewEntryStep]_vars

C15_SkippedToUnreadEntry ==
  /\ last.op = "Skip"
  /\ last.count = 2
  /\ Valid(1)
  /\ iters[1].iter.fileOffset = 3
  /\ KeyLen(1) = 2
  /\ iters[1].iter.keyCursor = 0
  /\ iters[1].iter.valueCursor = 0

C16_AsStatedStep ==
  \A i \in HashIters : \A key \in SeekKeys :
    (State(i) = ITERATOR_INVALID /\ Seek(i, key)) =>
      (iters'[i].iter.state = ITERATOR_INVALID /\ last'.err # nil)

C16_InvalidStep ==
  \A i \in HashIters :
    State(i) = ITERATOR_INVALID =>
      /\ (Next(i) \/ NextLive(i) \/ \E count \in Counts : Skip(i, count)) =>
           /\ iters'[i].iter.state = ITERATOR_INVALID
           /\ last'.err # nil => iters'[i].err = last'.err
      /\ \A key \in SeekKeys :
           Seek(i, key) =>
             LET k == LatestEntry(key) IN
             /\ (k \notin LiveEntries) =>
                  (last'.err = nil /\ iters'[i].iter.state = ITERATOR_INVALID)
             /\ (k \in LiveEntries /\ Readable(k)) =>
                  (last'.err = nil /\ iters'[i].iter.state = ITERATOR_ACTIVE
                     /\ iters'[i].iter.fileOffset = k)
             /\ (k \in LiveEntries /\ ~Readable(k)) =>
                  (last'.err # nil /\ iters'[i].iter.state = ITERATOR_INVALID)

C17_FrameStep ==
  \A o \in Iters :
    (last'.op # "none" /\ last'.it # o) =>
      /\ iters'[o].iter = iters[o].iter
      /\ iters'[o].err = iters[o].err
      /\ ptr'[o] = ptr[o]

\* C17: a call of Next, Skip, Seek, NextLive, Reset, KeyChunk, ValueChunk
\* or Close on one iterator, a call that faults included, leaves the
\* state, fileOffset, metadata, cursors and Err() of the other iterator
\* over the same log unchanged; so does Compare, which reads the other.
C17_Independent == [][C17_FrameStep]_vars

C17_FaultBesideReader ==
  /\ last.op = "Next"
  /\ last.it = 1
  /\ last.err # nil
  /\ State(1) = ITERATOR_INVALID
  /\ Err(1) # nil
  /\ State(2) = ITERATOR_ACTIVE
  /\ iters[2].iter.keyCursor > 0
  /\ Err(2) = nil
  /\ ~ptr[2].isNil

C18_NewIsNil ==
  last.op = "none" => \A i \in Iters : Err(i) = nil

C18_RecordStep ==
  \A i \in HashIters :
    /\ \A rc \in NativeCodes :
         (SkipReturns(i, rc) \/ NextReturns(i, rc) \/ NextLiveReturns(i, rc)) =>
           /\ last'.err = errorOrNil(rc)
           /\ iters'[i].err = IF rc # rc_SUCCESS /\ rc # rc_ITERINACTIVE
                                THEN Error(rc) ELSE iters[i].err
    /\ (\/ Reset(i)
        \/ KeyChunk(i, maxInt)
        \/ ValueChunk(i, maxInt)
        \/ \E other \in Iters \ {i} : Compare(i, other)
        \/ \E key \in SeekKeys : Seek(i, key) \/ Get(i, key)) =>
         iters'[i].err = iters[i].err
    /\ iters[i].err # nil => iters'[i].err # nil

\* C18: Err() is nil on a new iterator; Skip, Next and NextLive store every
\* returned code other than success and iterator-inactive in Err() and
\* return, without storing it, an iterator-inactive result; Reset,
\* KeyChunk, ValueChunk, Compare, Seek and Get leave Err() alone; Err()
\* never goes back to nil.
C18_ErrRule == []C18_NewIsNil /\ [][C18_RecordStep]_vars

C19_CursorStep ==
  \A i \in HashIters :
    Valid(i) =>
      /\ \A maxlen \in ChunkLens :
           /\ ValueChunk(i, maxlen) =>
                iters'[i].iter.keyCursor = iters[i].iter.keyCursor
           /\ KeyChunk(i, maxlen) =>
                iters'[i].iter.valueCursor = iters[i].iter.valueCursor
      /\ (iters[i].iter.keyCursor = 0 /\ Key(i)) =>
           /\ last'.err = nil
           /\ last'.bytes = CurrentEntry(i).key
           /\ iters'[i].iter.keyCursor = iters[i].iter.keyLen
      /\ (iters[i].iter.valueCursor = 0 /\ Value(i)) =>
           /\ last'.err = nil
           /\ last'.bytes = CurrentEntry(i).value
           /\ iters'[i].iter.valueCursor = iters[i].iter.valueLen

\* C19: on an ACTIVE entry ValueChunk and Value leave keyCursor alone and
\* KeyChunk and Key leave valueCursor alone, so an unread key is returned
\* in full whatever has been read of the value, and an unread value in
\* full whatever has been read of the key.
C19_IndependentCursors == [][C19_CursorStep]_vars

C19_ValueThenKey ==
  /\ Valid(1)
  /\ hist[1].placed = "fresh"
  /\ last.op = "KeyChunk"
  /\ last.err = nil
  /\ Len(last.bytes) = 2
  /\ last.bytes = CurrentEntry(1).key
  /\ hist[1].keyOut = last.bytes
  /\ hist[1].valueOut = CurrentEntry(1).value
  /\ Len(hist[1].valueOut) = 2

C20_PureStep ==
  \A i \in Iters : \A other \in Iters \ {i} :
    (Clean(iters[i].iter) /\ Clean(iters[other].iter) /\ Compare(i, other)) =>
      /\ last'.err = nil
      /\ iters' = iters
      /\ Clean(iters'[i].iter) /\ Clean(iters'[other].iter)
      /\ \A r \in CompareCall(iters'[i], iters'[other]) :
           r.err = nil /\ r.res = last'.res
      /\ KeyChunkCall(iters'[i], maxInt).bytes = CurrentEntry(i).key
      /\ KeyChunkCall(iters'[other], maxInt).bytes = CurrentEntry(other).key

\* C20: a successful Compare of two clean ACTIVE iterators changes neither
\* of them: both stay clean, the same Compare made again returns the same
\* result, and Key on either still returns its whole key.
C20_CompareIsPure == [][C20_PureStep]_vars

C20_ComparedFromOther ==
  /\ last.op = "Compare"
  /\ last.it = 2
  /\ last.err = nil
  /\ last.res > 0
  /\ Clean(iters[1].iter)
  /\ Clean(iters[2].iter)
  /\ iters[1].iter.fileOffset < iters[2].iter.fileOffset
====
